---- MODULE Spec2Model ----
(***************************************************************************)
(* ConnectionManager of whatsnode-js (src/lib/whatsnode/connection.ts) as  *)
(* a state machine.  One step of the model is one task of the JavaScript   *)
(* event loop together with the microtasks it queues: a call made by the   *)
(* embedding application, an event delivered by a WebSocket, or a timer    *)
(* callback.  Every connect() call that passes its guard creates one       *)
(* socket and one suspended async function; both are named by the same     *)
(* cycle number.  The AuthenticationManager (association-code calls), the  *)
(* SessionManager (localStorage item) and WhatsNodeClient.connect() are    *)
(* modelled as far as they drive the ConnectionManager.                    *)
(***************************************************************************)
EXTENDS Integers, Sequences, FiniteSets, TLC

\* ------------------------------------------------------------------ bounds
MaxCycles == 1          \* sockets created in one run of Spec
MaxWide == 2            \* sockets created in one run of SpecWide
MaxChain == 3           \* sockets created in one run of SpecReconnect
MaxAssocTimers == 1     \* pending timers of each association-code operation
MaxAttemptN == 13       \* attempt ceiling used when the delay ladder is walked
MaxPairing == 2         \* sockets created in one run of SpecPairing
MaxClient == 2          \* sockets created in one run of SpecClient

\* ------------------------------------------------------- program constants
MAX_DELAY == 300000
DEFAULT_RECONNECT_INTERVAL == 5000
DEFAULT_MAX_RECONNECT_ATTEMPTS == 10

ConnectionState == {"disconnected", "connecting", "connected", "authenticating", "loggedIn"}

\* base intervals walked by the delay ladder (0 is the falsy value of `||`)
Bases == {0, 1000, 2000, 4000, 5000, 8000, 10000, 20000, 60000, 300000, 400000}

\* phone numbers handed to requestAssociationCode ("" is falsy in `!phoneNumber`)
PhoneNumbers == {"", "40712345678"}

VARIABLES
  options,            \* ClientOptions handed to the constructor (never written)
  connectionState,    \* this.connectionState
  ws,                 \* this.ws: 0 is null, otherwise the socket of a cycle
  reconnectAttempts,  \* this.reconnectAttempts
  reconnectTimeout,   \* this.reconnectTimeout !== null
  pingInterval,       \* this.pingInterval !== null (the interval is running)
  timerArmed,         \* the timer created by scheduleReconnect is still pending
  timerDelay,         \* its delay in ms, a reduced fraction <<num, den>>
  readyState,         \* readyState of the socket created by each cycle (a sequence)
  pc,                 \* where the connect() call of each cycle is suspended
  loginTimer,         \* the 5000 ms timer set by each cycle's authenticateWithQR is pending
  assocTimers,        \* pending 1500 ms timers of authenticateWithAssociationCode
  codeTimers,         \* pending 2000 ms timers of requestAssociationCode
  budget,             \* sockets the run may still create
  emitted,            \* events emitted by the latest step, in order
  wsOps,              \* transport operations of the latest step, in order
  threw,              \* the latest step threw, or rejected the promise it returned
  sinceDisconnect,    \* disconnect() was called and connect() not since
  superseded,         \* connect() was called while the pending timer existed
  cyclesSinceLogin,   \* connect cycles started since the state last was loggedIn
  exhausted,          \* reconnect_failed emitted since the last caller connect()
  lastOp,             \* the call, event or timer that the latest step ran
  phoneNumber,        \* AuthenticationManager.phoneNumber ("null" is null)
  codeRequested,      \* a code request succeeded in the current pairing attempt
  keys,               \* this.keys: 0 is null, n is the pair drawn by the n-th generateKeys()
  caller,             \* who awaits the connect() of each cycle: "app", "auth" or "client"
  stored,             \* the localStorage item of the session: its text, "none" for null
  storeOps,           \* localStorage operations of the latest step, in order
  sessionData,        \* what restoreSession() sent to the server in the latest step
  savedData,          \* the argument of the latest saveSession(), "none" before it
  received,           \* number of 'message' events the socket has delivered
  readers,            \* FileReaders still reading a Blob: arrival number and frame kind
  processed,          \* arrival numbers of the frames given to processMessage, in order
  wasConnected,       \* the latest step emitted 'close' with wasConnected: true
  retry,              \* one function made by createRetryFunction and its one invocation
  sessionSaved,       \* saveSession ran since the current connect cycle began
  isConnected,        \* WhatsNodeClient.isConnected
  isReady             \* WhatsNodeClient.isReady

managerVars == <<options, connectionState, ws, reconnectAttempts, reconnectTimeout,
          pingInterval, timerArmed, timerDelay, readyState, pc, loginTimer,
          assocTimers, codeTimers, budget, emitted, wsOps, threw, sinceDisconnect,
          superseded, cyclesSinceLogin, exhausted, lastOp,
          phoneNumber, codeRequested, keys, caller, stored, storeOps, sessionSaved,
          isConnected, isReady, sessionData, savedData,
          received, readers, processed, wasConnected>>

vars == <<managerVars, retry>>

\* ------------------------------------------------------------ delay ladder
\* base * 1.5^k as a reduced fraction.  The value is exact (the doubles of the
\* code are exact in this range); once it is above the cap it is not grown any
\* further, because Math.min replaces it by the cap whatever its size.
RECURSIVE Grow(_, _, _)
Grow(num, den, k) ==
  IF k = 0 \/ num > MAX_DELAY * den THEN <<num, den>>
  ELSE IF num % 2 = 0 THEN Grow(3 * (num \div 2), den, k - 1)
  ELSE Grow(3 * num, 2 * den, k - 1)

\* a <= b for two fractions whose denominators are powers of two
FracLE(a, b) ==
  IF a[2] <= b[2] THEN a[1] * (b[2] \div a[2]) <= b[1]
  ELSE a[1] <= b[1] * (a[2] \div b[2])

\* Math.min(x, 300000)
MinCap(x) == IF x[1] > MAX_DELAY * x[2] THEN <<MAX_DELAY, 1>> ELSE x

\* faulty variant: Math.min left out
ReconnectDelayNoCap(interval, attempts) ==
  Grow(IF interval = 0 THEN DEFAULT_RECONNECT_INTERVAL ELSE interval, 1, attempts - 1)

\* faulty variant: exponent attempts instead of attempts - 1
ReconnectDelayOffByOne(interval, attempts) ==
  MinCap(Grow(IF interval = 0 THEN DEFAULT_RECONNECT_INTERVAL ELSE interval, 1, attempts))

\* const delay = Math.min((reconnectInterval || 5000) * Math.pow(1.5, attempts - 1), 300000)
ReconnectDelay(interval, attempts) ==
  MinCap(Grow(IF interval = 0 THEN DEFAULT_RECONNECT_INTERVAL ELSE interval, 1, attempts - 1))

\* this.options.maxReconnectAttempts || 10
MaxReconnectAttempts(o) ==
  IF o.maxReconnectAttempts = 0 THEN DEFAULT_MAX_RECONNECT_ATTEMPTS ELSE o.maxReconnectAttempts

\* ------------------------------------------------------ createRetryFunction
\* default parameters of createRetryFunction
DEFAULT_MAX_RETRIES == 3
DEFAULT_RETRY_DELAY == 1000

\* createRetryFunction(fn, maxRetries, delay): the returned function, not yet
\* invoked.  calls counts the invocations of fn, outcomes lists what they
\* settled with, slept is the total time passed to sleep()
createRetryFunction(maxRetries, delay) ==
  [pc |-> "idle", maxRetries |-> maxRetries, delay |-> delay, i |-> 0,
   lastError |-> "undefined", calls |-> 0, outcomes |-> <<>>, sleeps |-> 0, slept |-> 0,
   settled |-> "pending"]

\* the head of the for loop: fn() is called while i < maxRetries, and
\* lastError is thrown when the loop ends
loopHead(r) ==
  IF r.i < r.maxRetries
  THEN [r EXCEPT !.pc = "awaitFn", !.calls = @ + 1]
  ELSE [r EXCEPT !.pc = "rejected", !.settled = r.lastError]

\* `return await fn()` when fn() resolved with v
fnResolved(r, v) ==
  [r EXCEPT !.pc = "resolved", !.outcomes = Append(@, v), !.settled = v]

\* faulty variant: sleeps after every failure, the last one included
catchBlockAlwaysSleeps(r, e) ==
  [r EXCEPT !.outcomes = Append(@, e), !.lastError = e,
            !.pc = "sleeping", !.sleeps = @ + 1, !.slept = @ + r.delay]

\* the catch block, when fn() rejected with e
catchBlock(r, e) ==
  LET r1 == [r EXCEPT !.outcomes = Append(@, e), !.lastError = e]
  IN IF r1.i < r1.maxRetries - 1
     THEN [r1 EXCEPT !.pc = "sleeping", !.sleeps = @ + 1, !.slept = @ + r1.delay]
     ELSE loopHead([r1 EXCEPT !.i = @ + 1])

\* `await sleep(delay)` returned: i++ and the loop head
sleepReturned(r) == loopHead([r EXCEPT !.i = @ + 1])

\* ------------------------------------------- the manager as a record value
This ==
  [connectionState |-> connectionState, ws |-> ws,
   reconnectAttempts |-> reconnectAttempts, reconnectTimeout |-> reconnectTimeout,
   pingInterval |-> pingInterval, timerArmed |-> timerArmed, timerDelay |-> timerDelay,
   readyState |-> readyState, pc |-> pc, loginTimer |-> loginTimer,
   assocTimers |-> assocTimers, codeTimers |-> codeTimers, budget |-> budget,
   phoneNumber |-> phoneNumber, keys |-> keys, caller |-> caller, stored |-> stored,
   storeOps |-> <<>>, restored |-> FALSE, sessionData |-> "null", savedData |-> savedData,
   received |-> received, readers |-> readers, processed |-> processed,
   wasConnected |-> FALSE,
   emitted |-> <<>>, wsOps |-> <<>>, threw |-> FALSE, rearmed |-> FALSE]

emit(m, e) == [m EXCEPT !.emitted = Append(@, e)]

\* this.ws && this.ws.readyState === WebSocket.OPEN
wsIsOpen(m) == m.ws # 0 /\ m.readyState[m.ws] = "OPEN"

\* faulty variant: readyState not checked before send
sendBinaryUnchecked(m, frame) ==
  [m EXCEPT !.wsOps = Append(@, <<"send", frame, m.ws>>)]

\* sendBinary(data): throws unless the socket is open
sendBinary(m, frame) ==
  IF ~wsIsOpen(m) THEN [m EXCEPT !.threw = TRUE]
  ELSE [m EXCEPT !.wsOps = Append(@, <<"send", frame, m.ws>>)]

stopPingInterval(m) == [m EXCEPT !.pingInterval = FALSE]

startPingInterval(m) == [stopPingInterval(m) EXCEPT !.pingInterval = TRUE]

\* faulty variant: the previous timer is not cleared
scheduleReconnectKeepOld(m) ==
  IF m.reconnectAttempts >= MaxReconnectAttempts(options)
  THEN emit(m, "reconnect_failed")
  ELSE [m EXCEPT !.reconnectAttempts = @ + 1,
                 !.reconnectTimeout = TRUE,
                 !.timerArmed = TRUE,
                 !.rearmed = TRUE,
                 !.timerDelay = ReconnectDelay(options.reconnectInterval, m.reconnectAttempts + 1)]

\* scheduleReconnect(): clearTimeout leaves the field set, so at the ceiling the
\* field still holds the id of a cancelled timer
scheduleReconnect(m) ==
  LET m1 == IF m.reconnectTimeout
            THEN [m EXCEPT !.timerArmed = FALSE, !.timerDelay = <<0, 1>>]
            ELSE m
  IN IF m1.reconnectAttempts >= MaxReconnectAttempts(options)
     THEN emit(m1, "reconnect_failed")
     ELSE [m1 EXCEPT !.reconnectAttempts = @ + 1,
                     !.reconnectTimeout = TRUE,
                     !.timerArmed = TRUE,
                     !.rearmed = TRUE,
                     !.timerDelay = ReconnectDelay(options.reconnectInterval, m1.reconnectAttempts + 1)]

\* faulty variant: a state name outside the ConnectionState type
handleDisconnectionWrongState(m) ==
  LET m1 == stopPingInterval(m)
  IN IF m1.connectionState # "disconnected"
     THEN [m1 EXCEPT !.connectionState = "closed"]
     ELSE m1

\* faulty variant: auth_failure is not emitted for a close during authentication
handleDisconnectionNoAuthFailure(m) ==
  LET m1 == stopPingInterval(m)
  IN IF m1.connectionState # "disconnected"
     THEN LET m2 == emit([m1 EXCEPT !.connectionState = "disconnected"], "close")
          IN IF options.autoReconnect THEN scheduleReconnect(m2) ELSE m2
     ELSE m1

\* faulty variant: the disconnection is handled whatever the state is
handleDisconnectionEveryTime(m) ==
  LET m1 == stopPingInterval(m)
      m2 == emit([m1 EXCEPT !.connectionState = "disconnected"], "close")
  IN IF options.autoReconnect THEN scheduleReconnect(m2) ELSE m2

\* handleDisconnection(reason)
handleDisconnection(m) ==
  LET m1 == stopPingInterval(m)
  IN IF m1.connectionState # "disconnected"
     THEN LET previousState == m1.connectionState
              m2 == emit([m1 EXCEPT !.connectionState = "disconnected",
                                    !.wasConnected = (previousState = "loggedIn")],
                         "close")
              m3 == IF previousState = "authenticating" THEN emit(m2, "auth_failure") ELSE m2
          IN IF options.autoReconnect THEN scheduleReconnect(m3) ELSE m3
     ELSE m1

\* the connect() of cycle c rejected: the catch blocks of auth.authenticate()
\* and of WhatsNodeClient.connect(), when they are the ones awaiting it
clientRejected(m, c) ==
  IF m.caller[c] = "app" THEN m
  ELSE emit(IF m.caller[c] = "auth" THEN emit(m, "auth.auth_failure") ELSE m,
            "client.connection_failed")

\* the catch block of connect(); the error is rethrown to the caller
connectCatch(m, c) ==
  LET m1 == [m EXCEPT !.connectionState = "disconnected", !.pc[c] = "done", !.threw = TRUE]
  IN clientRejected(IF options.autoReconnect THEN scheduleReconnect(m1) ELSE m1, c)

\* generateKeys(): two fresh randomBytes(32) draws replace this.keys; the pair
\* of the n-th call is named n (two calls return the same 32 bytes with
\* probability 2^-256)
generateKeys(m) == [m EXCEPT !.keys = @ + 1]

\* connect() from its first statement to the await of the open promise:
\* createWebSocket(), generateKeys(), setupWebSocketHandlers()
connectStart(m) ==
  IF m.connectionState # "disconnected" THEN m
  ELSE emit(generateKeys([m EXCEPT !.connectionState = "connecting",
                                   !.ws = Len(m.readyState) + 1,
                                   !.readyState = Append(@, "CONNECTING"),
                                   !.pc = Append(@, "awaitOpen"),
                                   !.loginTimer = Append(@, FALSE),
                                   !.caller = Append(@, "app"),
                                   !.budget = @ - 1]), "connecting")

\* the connect() of cycle c resolved: WhatsNodeClient.connect(), when it awaits
\* it inside auth.authenticate(), goes on to call connection.connect() once more
clientResolved(m, c) ==
  IF m.caller[c] # "auth" THEN m
  ELSE LET m1 == connectStart(m)
           n == Len(m1.caller)
       IN IF m1.budget = m.budget THEN m1 ELSE [m1 EXCEPT !.caller[n] = "client"]

\* the tail of connect() after `await this.authenticate()`
connectTail(m, c) ==
  clientResolved(emit([startPingInterval(m) EXCEPT !.pc[c] = "done"], "open"), c)

\* authenticateWithQR() up to the await of the pairing-reference promise
authenticateWithQRStart(m, c) ==
  LET m1 == sendBinary(m, "clientHello")
  IN IF m1.threw THEN connectCatch(m1, c)
     ELSE [m1 EXCEPT !.pc[c] = "awaitQR"]

\* authenticate(); authInfo is never assigned, so the restore branch is dead
authenticate(m, c) ==
  IF ~wsIsOpen(m) THEN connectCatch(m, c)
  ELSE LET m1 == emit([m EXCEPT !.connectionState = "authenticating"], "authenticating")
       IN IF options.authStrategy = "qr" THEN authenticateWithQRStart(m1, c)
          ELSE connectTail(emit(m1, "auth_strategy_set"), c)

\* connect() resumed by the resolution of the open promise
connectAfterOpen(m, c) ==
  authenticate([m EXCEPT !.connectionState = "connected", !.reconnectAttempts = 0], c)

\* authenticateWithQR() resumed by handleQR: resolved after 'qr' was emitted
\* (the 5000 ms timer is set and connect() runs to its end), or rejected
authenticateWithQRResume(m, c, ok) ==
  IF ok
  THEN connectTail([emit(emit(m, "qr"), "waiting_for_qr_scan") EXCEPT !.loginTimer[c] = TRUE], c)
  ELSE connectCatch(m, c)

\* the transition made by the callbacks of the 5000 ms and 1500 ms timers
becomeLoggedIn(m) ==
  emit(emit([m EXCEPT !.connectionState = "loggedIn"], "authenticated"), "ready")

\* callback of the 5000 ms timer of authenticateWithQR
qrConfirm(m) ==
  IF m.connectionState = "authenticating" THEN becomeLoggedIn(m) ELSE m

\* callback of the 1500 ms timer of authenticateWithAssociationCode
associationConfirm(m) ==
  IF m.connectionState \in {"authenticating", "connected"} THEN becomeLoggedIn(m) ELSE m

\* faulty variant: connectionState is not looked at
requestAssociationCodeAnyState(m, p) ==
  IF ~wsIsOpen(m) THEN [m EXCEPT !.threw = TRUE]
  ELSE emit([sendBinary(m, "request_association_code") EXCEPT !.codeTimers = @ + 1,
                                                               !.phoneNumber = p],
            "association_code_requested")

\* requestAssociationCode(phoneNumber); the 'association_code_requested'
\* listener of the AuthenticationManager stores the number as the event is emitted
requestAssociationCode(m, p) ==
  IF m.connectionState \notin {"authenticating", "connected"} THEN [m EXCEPT !.threw = TRUE]
  ELSE IF ~wsIsOpen(m) THEN [m EXCEPT !.threw = TRUE]
  ELSE emit([sendBinary(m, "request_association_code") EXCEPT !.codeTimers = @ + 1,
                                                               !.phoneNumber = p],
            "association_code_requested")

authenticateWithAssociationCode(m) ==
  IF m.connectionState \notin {"authenticating", "connected"} THEN [m EXCEPT !.threw = TRUE]
  ELSE IF ~wsIsOpen(m) THEN [m EXCEPT !.threw = TRUE]
  ELSE [sendBinary(m, "validate_association_code") EXCEPT !.assocTimers = @ + 1]

\* AuthenticationManager.requestAssociationCode(phoneNumber): the number is
\* stored before the request is tried
authRequestAssociationCode(m, p) ==
  LET m1 == requestAssociationCode([m EXCEPT !.phoneNumber = p], p)
  IN IF m1.threw THEN emit(m1, "auth.auth_failure") ELSE m1

\* AuthenticationManager.authenticateWithAssociationCode(code)
authAuthenticateWithAssociationCode(m) ==
  IF m.phoneNumber \in {"null", ""} THEN [m EXCEPT !.threw = TRUE]
  ELSE LET m1 == authenticateWithAssociationCode(m)
       IN IF m1.threw THEN emit(m1, "auth.auth_failure") ELSE m1

\* processMessage(data), by the kind of the decoded frame
processMessage(m, kind) ==
  CASE kind = "pong" -> emit(m, "CB:Pong")
    [] kind = "401" -> emit([m EXCEPT !.connectionState = "disconnected"], "auth_failure")
    [] kind = "qr" -> emit(m, "qr")
    [] kind = "connected" -> becomeLoggedIn(m)
    [] OTHER -> emit(m, "message")

FrameKinds == {"pong", "401", "qr", "connected", "other"}

\* what event.data can be
Payloads == {"string", "ArrayBuffer", "Blob"}

\* handleWebSocketMessage(event) for the n-th frame of the socket: a string or
\* an ArrayBuffer is decoded and processed at once, a Blob is handed to a new
\* FileReader and the handler returns
handleWebSocketMessage(m, kind, payload) ==
  LET n == m.received + 1
      m1 == [m EXCEPT !.received = n]
  IN IF payload = "Blob"
     THEN [m1 EXCEPT !.readers = @ \cup {<<n, kind>>}]
     ELSE processMessage([m1 EXCEPT !.processed = Append(@, n)], kind)

\* reader.onloadend of the FileReader r: the Blob's frame is decoded and processed
onloadend(m, r) ==
  processMessage([m EXCEPT !.readers = @ \ {r}, !.processed = Append(@, r[1])], r[2])

\* faulty variant: neither sendMessage nor sendBinary looks at the readyState
sendMessageUnchecked(m, frame) == sendBinaryUnchecked(m, frame)

\* sendMessage(data): the frame boundary used by the feature managers; it looks
\* at the socket only, never at connectionState
sendMessage(m, frame) ==
  IF ~wsIsOpen(m) THEN [m EXCEPT !.threw = TRUE]
  ELSE sendBinary(m, frame)

\* JavaScript values a session can hold, written as JavaScript writes them: two
\* strings, a record of strings, and the Buffer that randomBytes() returns for
\* key material
SessionValues == {"'abc'", "'xyz'", "{id:'a'}", "Buffer[1,2]"}

\* JSON.stringify(value), as the text localStorage keeps: a Buffer is written
\* through its toJSON() as a record of its type and its bytes, undefined gives
\* undefined, which setItem turns into the text undefined
JSONstringify(v) ==
  CASE v = "'abc'" -> "\"abc\""
    [] v = "'xyz'" -> "\"xyz\""
    [] v = "{id:'a'}" -> "{\"id\":\"a\"}"
    [] v = "Buffer[1,2]" -> "{\"type\":\"Buffer\",\"data\":[1,2]}"
    [] v = "{type:'Buffer',data:[1,2]}" -> "{\"type\":\"Buffer\",\"data\":[1,2]}"
    [] v = "null" -> "null"
    [] OTHER -> "undefined"

\* JSON.parse(text): the value of a JSON text, "SyntaxError" when the text is
\* not JSON.  The text of a Buffer parses to a plain record, not to a Buffer.
JSONparse(t) ==
  CASE t = "\"abc\"" -> "'abc'"
    [] t = "\"xyz\"" -> "'xyz'"
    [] t = "{\"id\":\"a\"}" -> "{id:'a'}"
    [] t = "{\"type\":\"Buffer\",\"data\":[1,2]}" -> "{type:'Buffer',data:[1,2]}"
    [] t = "null" -> "null"
    [] OTHER -> "SyntaxError"

\* a stored item that restoreSession() takes for a session
WellFormed(item) == item # "none" /\ JSONparse(item) \notin {"SyntaxError", "null"}

\* SessionManager.saveSession(sessionData), with a sessionPath and a
\* localStorage: no caller anywhere in the library
saveSession(m, data) ==
  [m EXCEPT !.stored = JSONstringify(data), !.storeOps = Append(@, "setItem")]

\* SessionManager.restoreSession(), with a sessionPath and a localStorage: every
\* error, the one of JSON.parse and the one of sendMessage included, is caught
\* and reported as false, as an absent item is
restoreSession(m) ==
  LET m1 == [m EXCEPT !.storeOps = Append(@, "getItem")]
      parsed == IF m.stored = "none" THEN "null" ELSE JSONparse(m.stored)
  IN IF parsed = "SyntaxError" THEN m1
     ELSE IF parsed = "null" THEN m1
     ELSE LET m2 == sendMessage(m1, "restore_session")
          IN IF m2.threw THEN [m2 EXCEPT !.threw = FALSE]
             ELSE [m2 EXCEPT !.restored = TRUE, !.sessionData = parsed]

\* WhatsNodeClient.connect() up to its first suspension: restoreSession(), then
\* auth.authenticate() (which is connection.connect()) unless the session was
\* restored, then connection.connect()
clientConnect(m) ==
  LET m1 == restoreSession(m)
      m2 == connectStart(m1)
      n == Len(m2.caller)
  IN IF m2.budget = m1.budget THEN m2
     ELSE [m2 EXCEPT !.caller[n] = IF m1.restored THEN "client" ELSE "auth"]


\* faulty variant: the ping is sent whatever the readyState
sendPingUnchecked(m) == sendBinaryUnchecked(m, "ping")

\* sendPing()
sendPing(m) == IF wsIsOpen(m) THEN sendBinary(m, "ping") ELSE m

\* faulty variant: close() whatever the readyState, this.ws kept
disconnectCloseAgain(m) ==
  LET m1 == stopPingInterval(m)
      m2 == IF m1.reconnectTimeout
            THEN [m1 EXCEPT !.reconnectTimeout = FALSE, !.timerArmed = FALSE,
                            !.timerDelay = <<0, 1>>]
            ELSE m1
      m3 == IF m2.ws # 0
            THEN LET s == IF m2.readyState[m2.ws] = "OPEN" THEN sendBinary(m2, "logout") ELSE m2
                 IN [s EXCEPT !.threw = FALSE,
                              !.wsOps = Append(@, <<"close", m2.ws>>),
                              !.readyState[m2.ws] = IF @ = "CLOSED" THEN "CLOSED" ELSE "CLOSING"]
            ELSE m2
  IN emit([m3 EXCEPT !.connectionState = "disconnected"], "disconnected")

\* disconnect(): a socket that is not OPEN is dropped without close()
disconnect(m) ==
  LET m1 == stopPingInterval(m)
      m2 == IF m1.reconnectTimeout
            THEN [m1 EXCEPT !.reconnectTimeout = FALSE, !.timerArmed = FALSE,
                            !.timerDelay = <<0, 1>>]
            ELSE m1
      m3 == IF m2.ws # 0
            THEN IF m2.readyState[m2.ws] = "OPEN"
                 THEN [sendBinary(m2, "logout") EXCEPT
                         !.threw = FALSE,
                         !.wsOps = Append(@, <<"close", m2.ws>>),
                         !.readyState[m2.ws] = "CLOSING",
                         !.ws = 0]
                 ELSE [m2 EXCEPT !.ws = 0]
            ELSE m2
  IN emit([m3 EXCEPT !.connectionState = "disconnected"], "disconnected")

\* MessageManager.sendMessage(to, content): it asks for the state 'connected'
messageSendMessage(m) ==
  IF m.connectionState # "connected" THEN [m EXCEPT !.threw = TRUE]
  ELSE sendMessage(m, "send_message")

\* WhatsNodeClient.sendMessage(to, content)
clientSendMessage(m) ==
  IF ~isReady THEN [m EXCEPT !.threw = TRUE] ELSE messageSendMessage(m)

\* a flag of the client after its listeners have seen the events ev in order:
\* events of `on` set it, events of `off` clear it
RECURSIVE listen(_, _, _, _)
listen(flag, ev, on, off) ==
  IF ev = <<>> THEN flag
  ELSE listen(IF Head(ev) \in on THEN TRUE ELSE IF Head(ev) \in off THEN FALSE ELSE flag,
              Tail(ev), on, off)

\* the event that WhatsNodeClient emits to its own listeners for an event of
\* the connection or of the AuthenticationManager ("" when it forwards nothing)
clientEvent(e) ==
  CASE e = "open" -> "connection_opened"
    [] e = "close" -> "connection_closed"
    [] e = "ready" -> "ready"
    [] e = "qr" -> "qr"
    [] e = "authenticated" -> "authenticated"
    [] e \in {"auth_failure", "auth.auth_failure"} -> "auth_failure"
    [] e = "client.connection_failed" -> "connection_failed"
    [] e = "message" -> "message"
    [] OTHER -> ""

\* ------------------------------------------------------------------ steps
\* writes a step's result to the variables and keeps the bookkeeping that the
\* properties read
Commit(m, op) ==
  /\ m.budget >= 0
  /\ connectionState' = m.connectionState
  /\ ws' = m.ws
  /\ reconnectAttempts' = m.reconnectAttempts
  /\ reconnectTimeout' = m.reconnectTimeout
  /\ pingInterval' = m.pingInterval
  /\ timerArmed' = m.timerArmed
  /\ timerDelay' = m.timerDelay
  /\ readyState' = m.readyState
  /\ pc' = m.pc
  /\ loginTimer' = m.loginTimer
  /\ assocTimers' = m.assocTimers
  /\ codeTimers' = m.codeTimers
  /\ budget' = m.budget
  /\ emitted' = m.emitted
  /\ wsOps' = m.wsOps
  /\ threw' = m.threw
  /\ sinceDisconnect' = IF op = "disconnect" THEN TRUE
                        ELSE IF op = "connect" /\ m.budget # budget THEN FALSE
                        ELSE sinceDisconnect
  /\ superseded' = IF ~m.timerArmed \/ m.rearmed THEN FALSE
                   ELSE IF op = "connect" /\ m.budget # budget THEN TRUE
                   ELSE superseded
  /\ cyclesSinceLogin' = IF m.connectionState = "loggedIn" \/ op = "disconnect" THEN 0
                         ELSE IF m.budget # budget THEN cyclesSinceLogin + 1
                         ELSE cyclesSinceLogin
  /\ exhausted' = IF \E i \in 1..Len(m.emitted) : m.emitted[i] = "reconnect_failed" THEN TRUE
                  ELSE IF op \in {"connect", "disconnect"} \/ m.connectionState = "loggedIn"
                       THEN FALSE
                  ELSE exhausted
  /\ lastOp' = op
  /\ phoneNumber' = m.phoneNumber
  /\ isConnected' = IF op = "client.disconnect" THEN FALSE
                    ELSE listen(isConnected, m.emitted, {"open"}, {"close"})
  /\ isReady' = IF op = "client.disconnect" THEN FALSE
                ELSE listen(isReady, m.emitted, {"ready"}, {"close"})
  /\ keys' = m.keys
  /\ caller' = m.caller
  /\ stored' = m.stored
  /\ storeOps' = m.storeOps
  /\ sessionData' = m.sessionData
  /\ savedData' = m.savedData
  /\ received' = m.received
  /\ readers' = m.readers
  /\ processed' = m.processed
  /\ wasConnected' = m.wasConnected
  /\ sessionSaved' =
       IF \E i \in 1..Len(m.storeOps) : m.storeOps[i] = "setItem" THEN TRUE
       ELSE IF m.budget # budget THEN FALSE
       ELSE sessionSaved
  /\ codeRequested' =
       IF \E i \in 1..Len(m.emitted) : m.emitted[i] = "association_code_requested" THEN TRUE
       ELSE IF m.budget # budget \/ op \in {"disconnect", "logout"} THEN FALSE
       ELSE codeRequested
  /\ UNCHANGED <<options, retry>>

Cycles == 1..Len(readyState)

\* the application calls connect()
Connect ==
  /\ connectionState = "disconnected" => budget > 0
  /\ Commit(connectStart(This), "connect")

\* the application calls disconnect()
Disconnect ==
  Commit(disconnect(This), "disconnect")

\* the application calls requestAssociationCode(phoneNumber) of the
\* ConnectionManager, with a number that is not empty (the empty one matters
\* to the guard of the AuthenticationManager only)
RequestAssociationCode ==
  /\ codeTimers < MaxAssocTimers
  /\ \E p \in PhoneNumbers \ {""} : Commit(requestAssociationCode(This, p), "requestAssociationCode")

\* the application calls authenticateWithAssociationCode(code)
AuthenticateWithAssociationCode ==
  /\ assocTimers < MaxAssocTimers
  /\ Commit(authenticateWithAssociationCode(This), "authenticateWithAssociationCode")

\* the application (through a feature manager) calls sendMessage(data)
SendMessage ==
  Commit(sendMessage(This, "data"), "sendMessage")

\* the socket of cycle c opens: its only 'open' listener is onOpen of connect()
SocketOpen(c) ==
  /\ readyState[c] = "CONNECTING"
  /\ Commit(connectAfterOpen([This EXCEPT !.readyState[c] = "OPEN"], c), "open")

\* the socket of cycle c fails: the browser fires 'error' and then 'close' in
\* one task; handleWebSocketError runs first, then onError rejects the open
\* promise if connect() still awaits it (the catch block runs as a microtask),
\* then handleWebSocketClose
SocketFail(c) ==
  /\ readyState[c] \in {"CONNECTING", "OPEN"}
  /\ LET m0 == [This EXCEPT !.readyState[c] = "CLOSED"]
         m1 == handleDisconnection(m0)
         m2 == IF pc[c] = "awaitOpen" THEN connectCatch(m1, c) ELSE m1
     IN Commit(handleDisconnection(m2), "error")

\* the socket of cycle c closes (the peer closed it, or close() completed)
SocketClose(c) ==
  /\ readyState[c] \in {"OPEN", "CLOSING"}
  /\ Commit(handleDisconnection([This EXCEPT !.readyState[c] = "CLOSED"]), "close")

\* the socket of cycle c delivers a frame
SocketMessage(c, kind) ==
  /\ readyState[c] = "OPEN"
  /\ Commit(processMessage(This, kind), "message")

\* the 1000 ms timer of authenticateWithQR fires and handleQR settles the promise
QRTimer(c, ok) ==
  /\ pc[c] = "awaitQR"
  /\ Commit(authenticateWithQRResume(This, c, ok), "qrTimer")

\* the 5000 ms timer of authenticateWithQR fires
LoginTimer(c) ==
  /\ loginTimer[c]
  /\ Commit(qrConfirm([This EXCEPT !.loginTimer[c] = FALSE]), "loginTimer")

\* the 1500 ms timer of authenticateWithAssociationCode fires
AssocTimer ==
  /\ assocTimers > 0
  /\ Commit(associationConfirm([This EXCEPT !.assocTimers = @ - 1]), "assocTimer")

\* the 2000 ms timer of requestAssociationCode fires
CodeTimer ==
  /\ codeTimers > 0
  /\ Commit(emit([This EXCEPT !.codeTimers = @ - 1], "association_code_sending"), "codeTimer")

\* the timer created by scheduleReconnect fires
ReconnectTimer ==
  /\ timerArmed
  /\ connectionState = "disconnected" => budget > 0
  /\ LET m == emit([This EXCEPT !.reconnectTimeout = FALSE, !.timerArmed = FALSE,
                                !.timerDelay = <<0, 1>>], "reconnecting")
     IN Commit([connectStart(m) EXCEPT !.threw = FALSE], "reconnectTimer")

\* the keepalive interval ticks
PingTick ==
  /\ pingInterval
  /\ Commit(sendPing(This), "ping")

Next ==
  \/ Connect
  \/ Disconnect
  \/ RequestAssociationCode
  \/ AuthenticateWithAssociationCode
  \/ SendMessage
  \/ \E c \in Cycles : SocketOpen(c)
  \/ \E c \in Cycles : SocketFail(c)
  \/ \E c \in Cycles : SocketClose(c)
  \/ \E c \in Cycles, kind \in FrameKinds : SocketMessage(c, kind)
  \/ \E c \in Cycles, ok \in BOOLEAN : QRTimer(c, ok)
  \/ \E c \in Cycles : LoginTimer(c)
  \/ AssocTimer
  \/ CodeTimer
  \/ ReconnectTimer
  \/ PingTick

\* the fields of a newly constructed ConnectionManager
Fresh ==
  /\ connectionState = "disconnected"
  /\ ws = 0
  /\ reconnectAttempts = 0
  /\ reconnectTimeout = FALSE
  /\ pingInterval = FALSE
  /\ timerArmed = FALSE
  /\ timerDelay = <<0, 1>>
  /\ readyState = <<>>
  /\ pc = <<>>
  /\ loginTimer = <<>>
  /\ assocTimers = 0
  /\ codeTimers = 0
  /\ emitted = <<>>
  /\ wsOps = <<>>
  /\ threw = FALSE
  /\ sinceDisconnect = FALSE
  /\ superseded = FALSE
  /\ cyclesSinceLogin = 0
  /\ exhausted = FALSE
  /\ lastOp = "new"
  /\ phoneNumber = "null"
  /\ codeRequested = FALSE
  /\ keys = 0
  /\ caller = <<>>
  /\ storeOps = <<>>
  /\ sessionSaved = FALSE
  /\ isConnected = FALSE
  /\ isReady = FALSE
  /\ sessionData = "null"
  /\ savedData = "none"
  /\ received = 0
  /\ readers = {}
  /\ processed = <<>>
  /\ wasConnected = FALSE

Init ==
  /\ options \in [autoReconnect : BOOLEAN, authStrategy : {"qr", "association-code"},
                  reconnectInterval : {5000}, maxReconnectAttempts : {3}]
  /\ budget = MaxCycles
  /\ stored = "none"
  /\ retry = createRetryFunction(DEFAULT_MAX_RETRIES, DEFAULT_RETRY_DELAY)
  /\ Fresh

Spec == Init /\ [][Next]_vars


\* ------------------------------------------- the same steps, one more cycle
InitWide ==
  /\ options \in [autoReconnect : BOOLEAN, authStrategy : {"qr", "association-code"},
                  reconnectInterval : {5000}, maxReconnectAttempts : {3}]
  /\ budget = MaxWide
  /\ stored = "none"
  /\ retry = createRetryFunction(DEFAULT_MAX_RETRIES, DEFAULT_RETRY_DELAY)
  /\ Fresh

SpecWide == InitWide /\ [][Next]_vars

\* --------------------------------------------- the reconnection ladder alone
\* connect cycles driven by the reconnect timer, with autoReconnect on and a
\* ceiling of three attempts: no disconnect(), no inbound frames
InitReconnect ==
  /\ options = [autoReconnect |-> TRUE, authStrategy |-> "qr",
                reconnectInterval |-> 5000, maxReconnectAttempts |-> 3]
  /\ budget = MaxChain
  /\ stored = "none"
  /\ retry = createRetryFunction(DEFAULT_MAX_RETRIES, DEFAULT_RETRY_DELAY)
  /\ Fresh

\* the application calls connect() once, on the new manager
ConnectOnce ==
  /\ Len(readyState) = 0
  /\ Connect

NextReconnect ==
  \/ ConnectOnce
  \/ \E c \in Cycles : SocketOpen(c)
  \/ \E c \in Cycles : SocketFail(c)
  \/ \E c \in Cycles : SocketClose(c)
  \/ \E c \in Cycles, ok \in BOOLEAN : QRTimer(c, ok)
  \/ \E c \in Cycles : LoginTimer(c)
  \/ ReconnectTimer

SpecReconnect == InitReconnect /\ [][NextReconnect]_vars

\* ------------------------------------ association-code pairing by the client
\* the calls go through the AuthenticationManager, as those of WhatsNodeClient do
InitPairing ==
  /\ options \in [autoReconnect : BOOLEAN, authStrategy : {"association-code"},
                  reconnectInterval : {5000}, maxReconnectAttempts : {3}]
  /\ budget = MaxPairing
  /\ stored = "none"
  /\ retry = createRetryFunction(DEFAULT_MAX_RETRIES, DEFAULT_RETRY_DELAY)
  /\ Fresh

\* client.requestAssociationCode(phoneNumber)
AuthRequestAssociationCode ==
  /\ codeTimers < MaxAssocTimers
  /\ \E p \in PhoneNumbers :
       Commit(authRequestAssociationCode(This, p), "auth.requestAssociationCode")

\* client.authenticateWithAssociationCode(code)
AuthAuthenticateWithAssociationCode ==
  /\ assocTimers < MaxAssocTimers
  /\ Commit(authAuthenticateWithAssociationCode(This), "auth.authenticateWithAssociationCode")

\* AuthenticationManager.logout()
Logout ==
  Commit([disconnect(This) EXCEPT !.phoneNumber = "null"], "logout")

NextPairing ==
  \/ Connect
  \/ AuthRequestAssociationCode
  \/ AuthAuthenticateWithAssociationCode
  \/ Logout
  \/ \E c \in Cycles : SocketOpen(c)
  \/ \E c \in Cycles : SocketFail(c)
  \/ \E c \in Cycles : SocketClose(c)
  \/ AssocTimer
  \/ CodeTimer
  \/ ReconnectTimer

SpecPairing == InitPairing /\ [][NextPairing]_vars

\* ----------------------------------------- connecting through the client
\* WhatsNodeClient.connect() with a session item that is absent, valid or
\* corrupt in localStorage
InitClient ==
  /\ options \in [autoReconnect : BOOLEAN, authStrategy : {"qr", "association-code"},
                  reconnectInterval : {5000}, maxReconnectAttempts : {3}]
  /\ stored \in {"none", JSONstringify("{id:'a'}"), "{corrupt"}
  /\ budget = MaxClient
  /\ retry = createRetryFunction(DEFAULT_MAX_RETRIES, DEFAULT_RETRY_DELAY)
  /\ Fresh

\* the application calls client.connect()
ClientConnect ==
  /\ connectionState = "disconnected" => budget > 0
  /\ Commit(clientConnect(This), "client.connect")

\* the application calls client.disconnect()
ClientDisconnect ==
  Commit(disconnect(This), "client.disconnect")

\* the application calls client.sendMessage(to, content)
ClientSendMessage ==
  Commit(clientSendMessage(This), "client.sendMessage")

NextClient ==
  \/ ClientConnect
  \/ ClientDisconnect
  \/ ClientSendMessage
  \/ Disconnect
  \/ \E c \in Cycles : SocketOpen(c)
  \/ \E c \in Cycles : SocketFail(c)
  \/ \E c \in Cycles : SocketClose(c)
  \/ \E c \in Cycles, kind \in FrameKinds : SocketMessage(c, kind)
  \/ \E c \in Cycles, ok \in BOOLEAN : QRTimer(c, ok)
  \/ \E c \in Cycles : LoginTimer(c)
  \/ ReconnectTimer

SpecClient == InitClient /\ [][NextClient]_vars

\* ------------------------------------------------------ the session store
\* saveSession and restoreSession called on the SessionManager of a client
\* whose connection opens and closes
MaxStore == 1

InitStore ==
  /\ options = [autoReconnect |-> FALSE, authStrategy |-> "qr",
                reconnectInterval |-> 5000, maxReconnectAttempts |-> 3]
  /\ stored = "none"
  /\ budget = MaxStore
  /\ retry = createRetryFunction(DEFAULT_MAX_RETRIES, DEFAULT_RETRY_DELAY)
  /\ Fresh

\* the application calls getSessionManager().saveSession(data)
SaveSession ==
  \E data \in SessionValues :
    Commit([saveSession(This, data) EXCEPT !.savedData = data], "saveSession")

\* the application calls getSessionManager().restoreSession()
RestoreSession ==
  Commit(restoreSession(This), "restoreSession")

NextStore ==
  \/ SaveSession
  \/ RestoreSession
  \/ ClientConnect
  \/ Disconnect
  \/ \E c \in Cycles : SocketOpen(c)
  \/ \E c \in Cycles : SocketFail(c)
  \/ \E c \in Cycles : SocketClose(c)

SpecStore == InitStore /\ [][NextStore]_vars

\* ------------------------------------------------------- inbound frames
\* one connection that receives up to MaxFrames frames of any payload kind;
\* every frame gets its arrival number
MaxFrames == 3
MaxFrameCycles == 1

InitFrames ==
  /\ options = [autoReconnect |-> FALSE, authStrategy |-> "qr",
                reconnectInterval |-> 5000, maxReconnectAttempts |-> 3]
  /\ stored = "none"
  /\ budget = MaxFrameCycles
  /\ retry = createRetryFunction(DEFAULT_MAX_RETRIES, DEFAULT_RETRY_DELAY)
  /\ Fresh

\* the socket of cycle c delivers a 'message' event
FrameArrives(c, kind, payload) ==
  /\ readyState[c] = "OPEN"
  /\ received < MaxFrames
  /\ Commit(handleWebSocketMessage(This, kind, payload), "message")

\* a FileReader finishes reading its Blob; the readers finish in any order
ReaderLoadEnd ==
  \E r \in readers : Commit(onloadend(This, r), "loadend")

NextFrames ==
  \/ Connect
  \/ \E c \in Cycles : SocketOpen(c)
  \/ \E c \in Cycles : SocketClose(c)
  \/ \E c \in Cycles, kind \in {"qr", "connected", "other"}, payload \in Payloads :
       FrameArrives(c, kind, payload)
  \/ ReaderLoadEnd

SpecFrames == InitFrames /\ [][NextFrames]_vars

\* ---------------------------------------------------------- self-healing
\* a manager with autoReconnect on whose application calls connect() once and
\* never disconnect(); every timer that is set fires, sooner or later
MaxLive == 3

InitLive ==
  /\ options \in [autoReconnect : {TRUE}, authStrategy : {"qr"},
                  reconnectInterval : {5000}, maxReconnectAttempts : {3}]
  /\ stored = "none"
  /\ budget = MaxLive
  /\ retry = createRetryFunction(DEFAULT_MAX_RETRIES, DEFAULT_RETRY_DELAY)
  /\ Fresh

NextLive ==
  \/ ConnectOnce
  \/ \E c \in Cycles : SocketOpen(c)
  \/ \E c \in Cycles : SocketFail(c)
  \/ \E c \in Cycles : SocketClose(c)
  \/ \E c \in Cycles, kind \in FrameKinds : SocketMessage(c, kind)
  \/ \E c \in Cycles, ok \in BOOLEAN : QRTimer(c, ok)
  \/ \E c \in Cycles : LoginTimer(c)
  \/ ReconnectTimer

SpecLive == InitLive /\ [][NextLive]_vars /\ WF_vars(ReconnectTimer)

\* ------------------------------------------------------- the QR handshake
\* connect() once with the qr strategy on a transport that opens and stays
\* open; no disconnect(); the server sends frames; every timer set fires
MaxQR == 2

InitQR ==
  /\ options \in [autoReconnect : BOOLEAN, authStrategy : {"qr"},
                  reconnectInterval : {5000}, maxReconnectAttempts : {3}]
  /\ stored = "none"
  /\ budget = MaxQR
  /\ retry = createRetryFunction(DEFAULT_MAX_RETRIES, DEFAULT_RETRY_DELAY)
  /\ Fresh

NextQR ==
  \/ ConnectOnce
  \/ \E c \in Cycles : SocketOpen(c)
  \/ \E c \in Cycles, kind \in FrameKinds : SocketMessage(c, kind)
  \/ \E c \in Cycles, ok \in BOOLEAN : QRTimer(c, ok)
  \/ \E c \in Cycles : LoginTimer(c)
  \/ ReconnectTimer

SpecQR ==
  /\ InitQR /\ [][NextQR]_vars
  /\ WF_vars(\E c \in Cycles : SocketOpen(c))
  /\ WF_vars(\E c \in Cycles, ok \in BOOLEAN : QRTimer(c, ok))
  /\ WF_vars(\E c \in Cycles : LoginTimer(c))
  /\ WF_vars(ReconnectTimer)

\* ------------------------------------------------------ the retry function
\* one function made by createRetryFunction, invoked once, for each maxRetries
\* up to MaxRetries and each delay; fn rejects with one of two errors or
\* resolves, and every promise settles
MaxRetries == 4
Delays == {0, DEFAULT_RETRY_DELAY}
Errors == {"E1", "E2"}

InitRetry ==
  /\ options = [autoReconnect |-> FALSE, authStrategy |-> "qr",
                reconnectInterval |-> 5000, maxReconnectAttempts |-> 3]
  /\ stored = "none"
  /\ budget = 0
  /\ retry \in {createRetryFunction(n, d) : n \in 0..MaxRetries, d \in Delays}
  /\ Fresh

\* the returned function is invoked
RetryInvoke ==
  /\ retry.pc = "idle"
  /\ retry' = loopHead(retry)
  /\ UNCHANGED managerVars

\* the promise of fn() resolves
FnResolves ==
  /\ retry.pc = "awaitFn"
  /\ retry' = fnResolved(retry, "value")
  /\ UNCHANGED managerVars

\* the promise of fn() rejects
FnRejects ==
  /\ retry.pc = "awaitFn"
  /\ \E e \in Errors : retry' = catchBlock(retry, e)
  /\ UNCHANGED managerVars

\* the timer of sleep(delay) fires
SleepReturns ==
  /\ retry.pc = "sleeping"
  /\ retry' = sleepReturned(retry)
  /\ UNCHANGED managerVars

NextRetry ==
  \/ RetryInvoke
  \/ FnResolves
  \/ FnRejects
  \/ SleepReturns

SpecRetry ==
  /\ InitRetry /\ [][NextRetry]_vars
  /\ WF_vars(RetryInvoke)
  /\ WF_vars(FnResolves \/ FnRejects)
  /\ WF_vars(SleepReturns)

\* ------------------------------------------------- the delay function alone
\* scheduleReconnect() called again and again on a manager that never connects,
\* for each base interval: walks delay(1), delay(2), ... up to the ceiling
InitDelay ==
  /\ options \in [autoReconnect : {TRUE}, authStrategy : {"qr"},
                  reconnectInterval : Bases, maxReconnectAttempts : {MaxAttemptN}]
  /\ budget = 0
  /\ stored = "none"
  /\ retry = createRetryFunction(DEFAULT_MAX_RETRIES, DEFAULT_RETRY_DELAY)
  /\ Fresh

Reschedule ==
  Commit(scheduleReconnect(This), "scheduleReconnect")

NextDelay == Reschedule

SpecDelay == InitDelay /\ [][NextDelay]_vars

\* ------------------------------------------------------------- properties
JustEmitted(e) == \E i \in 1..Len(emitted) : emitted[i] = e

\* min(base * 1.5^(n-1), 300000) as the specification states it
StatedDelay(base, n) == MinCap(Grow(base, 1, n - 1))

\* C1: after every step (connect, disconnect, transport open/close/error,
\* inbound frame, timer) the connection state is one of the five defined states.
C1_StateIsOneOfFive == connectionState \in ConnectionState

\* the close of the socket has just been processed by handleDisconnection
C1_Witness ==
  /\ connectionState = "disconnected"
  /\ JustEmitted("close")
  /\ readyState[1] = "CLOSED"
  /\ cyclesSinceLogin = 0

\* C2 as stated: for every attempt n >= 1 and every configured base interval
\* the delay of the timer scheduled for attempt n is min(base * 1.5^(n-1),
\* 300000), is at most 300000 and is not below the delay of attempt n-1.
C2_DelayFormulaEveryBase ==
  timerArmed =>
    /\ timerDelay = StatedDelay(options.reconnectInterval, reconnectAttempts)
    /\ FracLE(timerDelay, <<MAX_DELAY, 1>>)
    /\ reconnectAttempts > 1 =>
         FracLE(ReconnectDelay(options.reconnectInterval, reconnectAttempts - 1), timerDelay)

\* C2 amended: the formula holds for every positive base interval; a base
\* interval of 0 is replaced by 5000 before the formula is applied.
C2_DelayFormula ==
  timerArmed =>
    /\ options.reconnectInterval > 0 =>
         timerDelay = StatedDelay(options.reconnectInterval, reconnectAttempts)
    /\ options.reconnectInterval = 0 =>
         timerDelay = StatedDelay(DEFAULT_RECONNECT_INTERVAL, reconnectAttempts)
    /\ FracLE(timerDelay, <<MAX_DELAY, 1>>)
    /\ reconnectAttempts > 1 =>
         FracLE(ReconnectDelay(options.reconnectInterval, reconnectAttempts - 1), timerDelay)

C2_Witness ==
  /\ timerArmed
  /\ options.reconnectInterval = 60000
  /\ reconnectAttempts = 5
  /\ timerDelay = <<MAX_DELAY, 1>>

\* C3 as stated: with base 5000 the delays of attempts 1, 2 and 3 are 5000,
\* 7500 and 11250 ms and attempt 10 is capped at 300000 ms.
C3_ExamplesAsStated ==
  (timerArmed /\ options.reconnectInterval = 5000) =>
    /\ reconnectAttempts = 1 => timerDelay = <<5000, 1>>
    /\ reconnectAttempts = 2 => timerDelay = <<7500, 1>>
    /\ reconnectAttempts = 3 => timerDelay = <<11250, 1>>
    /\ reconnectAttempts = 10 => timerDelay = <<MAX_DELAY, 1>>

\* C3 amended: with base 5000 the delays of attempts 1, 2 and 3 are 5000, 7500
\* and 11250 ms; attempt 10 is 192216.796875 ms (12301875/64) and attempt 11 is
\* 288325.1953125 ms (36905625/128), both below the cap; attempt 12 is the
\* first that is capped at 300000 ms.
C3_Examples ==
  (timerArmed /\ options.reconnectInterval = 5000) =>
    /\ reconnectAttempts = 1 => timerDelay = <<5000, 1>>
    /\ reconnectAttempts = 2 => timerDelay = <<7500, 1>>
    /\ reconnectAttempts = 3 => timerDelay = <<11250, 1>>
    /\ reconnectAttempts = 10 => timerDelay = <<12301875, 64>>
    /\ reconnectAttempts = 11 => timerDelay = <<36905625, 128>>
    /\ reconnectAttempts >= 12 => timerDelay = <<MAX_DELAY, 1>>

C3_Witness ==
  /\ timerArmed
  /\ options.reconnectInterval = 5000
  /\ reconnectAttempts = 12

\* C4: with autoReconnect on and maxReconnectAttempts = 3, once three
\* consecutive connect cycles have failed without reaching loggedIn,
\* reconnect_failed has been emitted; and once it has been emitted no
\* reconnect timer is pending.
ThreeFailedCycles ==
  /\ cyclesSinceLogin >= 3
  /\ connectionState = "disconnected"
  /\ \A c \in Cycles : pc[c] = "done"

C4_ExhaustedAfterThreeFailures ==
  (options.autoReconnect /\ options.maxReconnectAttempts = 3) =>
    /\ ThreeFailedCycles => (exhausted /\ ~timerArmed)
    /\ exhausted => ~timerArmed

\* C5: whenever the connection state is loggedIn the attempt counter is 0.
C5_LoggedInCounterZero ==
  connectionState = "loggedIn" => reconnectAttempts = 0

\* C6: a step sets a positive attempt counter back to zero only if it moves
\* the connection state to loggedIn.
C6_ResetOnlyOnLoggedIn ==
  [][(reconnectAttempts > 0 /\ reconnectAttempts' = 0) => connectionState' = "loggedIn"]_vars

\* C7: a reconnect timer is pending only when autoReconnect is on, and never
\* after disconnect() as long as the application has not called connect() again.
C7_NoReconnectAfterDisconnect ==
  /\ timerArmed => options.autoReconnect
  /\ sinceDisconnect => ~timerArmed

NoTimerPending ==
  /\ ~timerArmed
  /\ ~pingInterval
  /\ assocTimers = 0
  /\ codeTimers = 0
  /\ \A c \in Cycles : pc[c] # "awaitQR" /\ ~loginTimer[c]

\* C8: in the state in which disconnect() resolves no timer of the instance is
\* pending: reconnect timer, keepalive interval, pairing-reference wait,
\* pairing confirmations.
C8_TimersCancelledByDisconnect ==
  JustEmitted("disconnected") => NoTimerPending

\* C9: a reconnect timer that was pending when the application called
\* connect() never fires (no 'reconnecting' event comes from it).
C9_SupersededTimerNeverFires ==
  [][superseded => ~JustEmitted("reconnecting")']_vars

\* C10: a disconnect() that directly follows a disconnect() finds the state
\* disconnected, performs no transport operation, raises no error and leaves
\* the state disconnected.
C10_SecondDisconnectIsNoOp ==
  [][(JustEmitted("disconnected") /\ JustEmitted("disconnected")') =>
       /\ connectionState = "disconnected"
       /\ wsOps' = <<>>
       /\ ~threw'
       /\ readyState' = readyState
       /\ connectionState' = "disconnected"]_vars

\* the first disconnect() closed the open socket of the only cycle, the latest
\* step is a disconnect() again and it touched no transport
C10_Witness ==
  /\ JustEmitted("disconnected")
  /\ Len(readyState) = 1
  /\ readyState[1] = "CLOSING"
  /\ wsOps = <<>>
  /\ connectionState = "disconnected"
  /\ ws = 0

\* C11: a sendMessage call made in a state other than loggedIn (disconnected,
\* connecting, connected, authenticating) fails and writes nothing to the
\* transport.
C11_SendFailsUnlessLoggedIn ==
  (lastOp = "sendMessage" /\ connectionState # "loggedIn") =>
    (threw /\ wsOps = <<>>)

\* C12: a sendMessage call made while the state is connecting throws at the
\* call site and writes nothing to the transport.
C12_SendWhileConnectingFails ==
  (lastOp = "sendMessage" /\ connectionState = "connecting") =>
    (threw /\ wsOps = <<>> /\ emitted = <<>>)

\* sendMessage has just been called while the socket of the only cycle was
\* still being opened
C12_Witness ==
  /\ lastOp = "sendMessage"
  /\ connectionState = "connecting"
  /\ ws = 1
  /\ readyState[1] = "CONNECTING"
  /\ threw

\* C13: submitting an association code fails, and sends no validation frame,
\* unless a code request has succeeded earlier in the same pairing attempt (a
\* failed request, or one made in an earlier session attempt, does not count).
C13_SubmitNeedsRequest ==
  (lastOp = "auth.authenticateWithAssociationCode" /\ ~codeRequested) =>
    (threw /\ wsOps = <<>>)

C15_CloseWhileAuthenticating ==
  [][(/\ connectionState = "authenticating"
      /\ ws # 0
      /\ readyState[ws] = "OPEN"
      /\ readyState'[ws] = "CLOSED") =>
       /\ connectionState' = "disconnected"
       /\ JustEmitted("close")'
       /\ JustEmitted("auth_failure")'
       /\ options.autoReconnect =>
            /\ timerArmed'
            /\ reconnectTimeout'
            /\ timerDelay' = <<options.reconnectInterval, 1>>
            /\ reconnectAttempts' = 1
       /\ ~options.autoReconnect => ~timerArmed']_vars

\* the socket has just closed during authentication and the first reconnect
\* timer is pending
C15_Witness ==
  /\ lastOp = "close"
  /\ JustEmitted("auth_failure")
  /\ connectionState = "disconnected"
  /\ options.autoReconnect
  /\ timerArmed
  /\ reconnectAttempts = 1
  /\ timerDelay = <<5000, 1>>

\* C16: whenever a pairing handshake succeeds and the state moves from
\* authenticating to loggedIn, saveSession has stored the pairing credential
\* before or in that step.
C16_CredentialSavedOnLogin ==
  [][(connectionState = "authenticating" /\ connectionState' = "loggedIn") =>
       (sessionSaved' /\ WellFormed(stored'))]_vars

\* C17: with a valid session stored and client.connect() called on a new
\* client, the first connection starts no pairing handshake: no client-hello
\* frame is sent on its socket and the handshake emits no 'qr' event.
C17_StoredSessionSkipsHandshake ==
  (WellFormed(stored) /\ Len(readyState) = 1 /\ caller[1] # "app") =>
    /\ \A i \in 1..Len(wsOps) : wsOps[i] # <<"send", "clientHello", 1>>
    /\ ~(lastOp = "qrTimer" /\ JustEmitted("qr"))

\* C18: the keepalive interval runs exactly while the state is loggedIn: it is
\* running in loggedIn and is not running in disconnected, connecting,
\* connected or authenticating.
C18_KeepaliveOnlyLoggedIn ==
  pingInterval <=> connectionState = "loggedIn"

\* C19: the state moves from authenticating to loggedIn only in a step that
\* processes a frame received from the server.
C19_LoggedInOnlyByFrame ==
  [][(connectionState = "authenticating" /\ connectionState' = "loggedIn") =>
       lastOp' = "message"]_vars

\* C20: once the key pair has been generated no step changes it: connect(),
\* automatic reconnects, transport failures and disconnect() leave it as it was.
C20_KeysGeneratedOnce ==
  [][keys # 0 => keys' = keys]_vars

\* C21: with the qr strategy configured, the association-code operations do
\* not drive the state to loggedIn (the confirmation of a submitted
\* association code never logs the client in), and the configured strategy
\* never changes.
C21_OneStrategyPerAttempt ==
  [][/\ options' = options
     /\ (options.authStrategy = "qr" /\ lastOp' = "assocTimer") =>
          (connectionState' = "loggedIn" => connectionState = "loggedIn")]_vars

\* C23: a connect() call made while the state is connecting or authenticating
\* is rejected with an error, opens no second transport and leaves the state
\* and the attempt counter unchanged.
C23_ConnectWhileBusyRejected ==
  [][(connectionState \in {"connecting", "authenticating"} /\ lastOp' = "connect") =>
       /\ threw'
       /\ readyState' = readyState
       /\ connectionState' = connectionState
       /\ reconnectAttempts' = reconnectAttempts]_vars

\* C28: when disconnect() resolves, no socket of the instance is left
\* connecting or open, a logout frame was sent before close() if the socket
\* was open, the state is disconnected and the instance holds no socket.
C28_DisconnectClosesTransport ==
  (lastOp = "disconnect") =>
    /\ connectionState = "disconnected"
    /\ ws = 0
    /\ \A c \in Cycles : readyState[c] \in {"CLOSING", "CLOSED"}
    /\ \A i \in 1..Len(wsOps) :
         wsOps[i][1] = "close" => (i = 2 /\ wsOps[1] = <<"send", "logout", wsOps[i][2]>>)

SentTo(op) == op[3]

\* C29: every frame written in a step goes to this.ws, which is open when it
\* is written (it was open before the step, or it opened in this step and is
\* still open), and a sendMessage call on an absent or non-open socket throws
\* and writes nothing.
C29_NoWriteUnlessOpen ==
  [][/\ \A i \in 1..Len(wsOps') :
          wsOps'[i][1] = "send" =>
            /\ SentTo(wsOps'[i]) \in 1..Len(readyState')
            /\ \/ SentTo(wsOps'[i]) = ws /\ readyState[ws] = "OPEN"
               \/ SentTo(wsOps'[i]) = ws' /\ readyState'[ws'] = "OPEN" /\ lastOp' = "open"
     /\ (lastOp' = "sendMessage" /\ (ws = 0 \/ readyState[ws] # "OPEN")) =>
          (threw' /\ wsOps' = <<>>)]_vars

\* a ping has just been written to the open socket of the only cycle
C29_Witness ==
  /\ lastOp = "ping"
  /\ wsOps = <<<<"send", "ping", 1>>>>
  /\ readyState = <<"OPEN">>
  /\ ws = 1

ClientJustEmitted(e) == \E i \in 1..Len(emitted) : clientEvent(emitted[i]) = e

\* C26: a client.sendMessage call made after the client emitted 'ready', while
\* the state is loggedIn and the socket is open, writes one send_message frame
\* and does not fail.
C26_SendAfterReady ==
  (/\ lastOp = "client.sendMessage"
   /\ isReady
   /\ connectionState = "loggedIn"
   /\ ws # 0
   /\ readyState[ws] = "OPEN") =>
    (~threw /\ wsOps = <<<<"send", "send_message", ws>>>>)

\* C27: a step that closes the connection (a transport close or error that
\* the manager reports with 'close', or a client.disconnect() that closes the
\* socket) makes the client emit 'disconnected' to its listeners.
C27_ClientEmitsDisconnected ==
  (\/ lastOp \in {"close", "error"} /\ JustEmitted("close")
   \/ lastOp = "client.disconnect" /\ \E i \in 1..Len(wsOps) : wsOps[i][1] = "close") =>
    ClientJustEmitted("disconnected")

\* C24: loading a corrupt session item gives an error outcome: a
\* client.connect() that finds corrupt data in the store fails, it does not go
\* on as it does when no session is stored.
C24_CorruptSessionIsAnError ==
  (lastOp = "client.connect" /\ stored # "none" /\ JSONparse(stored) = "SyntaxError") =>
    threw

\* C25: a load that follows a save yields the credential that was saved last:
\* when restoreSession() finds the session and hands it on, the session data it
\* hands on equals the argument of the latest saveSession().
C25_SaveLoadRoundTrip ==
  (lastOp = "restoreSession" /\ savedData # "none" /\ sessionData # "null") =>
    sessionData = savedData

\* C22: inbound frames are processed in the order they were received, whatever
\* their payload: the arrival numbers of the processed frames only go up.
C22_FramesInArrivalOrder ==
  \A i, j \in 1..Len(processed) : i < j => processed[i] < processed[j]

\* C30: with autoReconnect on and no disconnect(), a transport close or error
\* in state loggedIn leaves the state disconnected with 'close' emitted, and
\* leads to a step of the reconnect timer that emits 'reconnecting' and starts
\* a new connect() attempt.
C30_SelfHealing ==
  /\ [](wasConnected => connectionState = "disconnected" /\ JustEmitted("close"))
  /\ (wasConnected /\ budget > 0) ~>
       (lastOp = "reconnectTimer" /\ JustEmitted("reconnecting") /\ JustEmitted("connecting"))

\* C31: a connect cycle whose transport fails before it opens increases the
\* attempt counter by exactly one and schedules the reconnect with the delay of
\* the new attempt number, as long as the ceiling is not reached.
C31_FailedCycleCountsOnce ==
  [][(/\ lastOp' = "error"
      /\ connectionState = "connecting"
      /\ ws > 0
      /\ readyState[ws] = "CONNECTING"
      /\ readyState'[ws] = "CLOSED"
      /\ reconnectAttempts < MaxReconnectAttempts(options)) =>
       (/\ reconnectAttempts' = reconnectAttempts + 1
        /\ timerArmed'
        /\ timerDelay' = ReconnectDelay(options.reconnectInterval, reconnectAttempts + 1))]_vars

\* C32: the confirmation timer of a handshake whose transport has failed never
\* moves a later connection attempt from authenticating to loggedIn.
C32_HandshakeSingleUse ==
  [][\A c \in Cycles :
       (/\ lastOp' = "loginTimer"
        /\ loginTimer[c] /\ ~loginTimer'[c]
        /\ readyState[c] = "CLOSED") =>
         ~(connectionState = "authenticating" /\ connectionState' = "loggedIn")]_vars

\* C33: after disconnect() and a new connect(), the close event of the socket
\* that disconnect() closed changes neither the connection state nor the
\* reconnect counter and schedules no reconnect.
C33_OldSocketIgnored ==
  [][\A c \in Cycles :
       (/\ lastOp' = "close"
        /\ readyState[c] = "CLOSING" /\ readyState'[c] = "CLOSED"
        /\ ws # 0 /\ ws # c) =>
         (/\ connectionState' = connectionState
          /\ reconnectAttempts' = reconnectAttempts
          /\ timerArmed' = timerArmed
          /\ timerDelay' = timerDelay)]_vars

Count(seq, e) == Cardinality({i \in 1..Len(seq) : seq[i] = e})

\* C34 as stated: when a transport that had opened delivers an error event and
\* then a close event, exactly one 'close' event is emitted, the attempt
\* counter goes up by at most one, and a pending reconnect timer is the one of
\* the new counter value.
C34_ExactlyOneCloseAsStated ==
  [][\A c \in Cycles :
       (/\ lastOp' = "error"
        /\ readyState[c] = "OPEN" /\ readyState'[c] = "CLOSED") =>
         (/\ Count(emitted', "close") = 1
          /\ reconnectAttempts' \in {reconnectAttempts, reconnectAttempts + 1}
          /\ (timerArmed' /\ reconnectAttempts' # reconnectAttempts) =>
               timerDelay' = ReconnectDelay(options.reconnectInterval, reconnectAttempts'))]_vars

\* C34 amended: when a transport that had opened delivers an error event and
\* then a close event, the disconnection is handled once: one 'close' event is
\* emitted if the state was not yet disconnected and none otherwise, the
\* attempt counter goes up by at most one, and a pending reconnect timer is the
\* one of the new counter value.
C34_ErrorThenCloseHandledOnce ==
  [][\A c \in Cycles :
       (/\ lastOp' = "error"
        /\ readyState[c] = "OPEN" /\ readyState'[c] = "CLOSED") =>
         (/\ Count(emitted', "close") = IF connectionState = "disconnected" THEN 0 ELSE 1
          /\ reconnectAttempts' \in {reconnectAttempts, reconnectAttempts + 1}
          /\ (timerArmed' /\ reconnectAttempts' # reconnectAttempts) =>
               timerDelay' = ReconnectDelay(options.reconnectInterval, reconnectAttempts'))]_vars

\* an opened socket failed in state authenticating, with autoReconnect on
C34_Witness ==
  /\ lastOp = "error"
  /\ readyState = <<"CLOSED">>
  /\ pc = <<"awaitQR">>
  /\ Count(emitted, "close") = 1
  /\ reconnectAttempts = 1
  /\ timerArmed

\* C35: whenever the state is loggedIn the manager holds a transport and that
\* transport is open.
C35_LoggedInHoldsOpenTransport ==
  connectionState = "loggedIn" => (ws # 0 /\ readyState[ws] = "OPEN")

\* C36: every step that leaves loggedIn by a transport close or error, by an
\* inbound frame (the 401 frame) or by client.disconnect() makes
\* isClientReady() false.
C36_ReadyOnlyWhileLoggedIn ==
  [][(/\ connectionState = "loggedIn"
      /\ connectionState' # "loggedIn"
      /\ lastOp' \in {"close", "error", "message", "client.disconnect"}) =>
       ~isReady']_vars

\* C37: 'open' is emitted only while the current transport is open and the
\* attempt has not been closed, so a step that emits 'open' never leaves
\* isClientConnected() true in state disconnected.
C37_OpenOnlyWhileOpen ==
  JustEmitted("open") =>
    (connectionState # "disconnected" /\ ws # 0 /\ readyState[ws] = "OPEN")

\* sockets that are opening or open; their listeners are never removed
Live == {c \in Cycles : readyState[c] \in {"CONNECTING", "OPEN"}}

\* C38 (one call, one transport): a transport is created only in the step of
\* a connect() call or of the reconnect timer, never in a later step of a
\* client.connect() that has already opened one.
C38_OneTransportPerCall ==
  [][Len(readyState') > Len(readyState) =>
       lastOp' \in {"client.connect", "connect", "reconnectTimer"}]_vars

\* C38: one call of client.connect() opens at most one transport, and at any
\* time at most one transport is opening or open.
C38_AtMostOneTransport ==
  /\ C38_OneTransportPerCall
  /\ [](Cardinality(Live) <= 1)

\* C39: with the qr strategy, once connect() was called and the transport is
\* open and stays open, the state eventually becomes loggedIn, and 'ready' is
\* emitted once for the session: no step emits 'ready' in state loggedIn.
C39_QRLoginOnce ==
  /\ [][(\E i \in 1..Len(emitted') : emitted'[i] = "ready") =>
         connectionState # "loggedIn"]_vars
  /\ (lastOp = "open" /\ connectionState = "authenticating") ~> (connectionState = "loggedIn")

\* the invocations of fn that failed
Failures == {k \in 1..Len(retry.outcomes) : retry.outcomes[k] \in Errors}

\* C40: for maxRetries >= 1 the retry function terminates; it invokes fn at
\* most maxRetries times, resolves with the result of the first successful
\* invocation (every earlier one failed), sleeps once after each failed
\* invocation but the maxRetries-th, and after maxRetries failures rejects
\* with the error of the last invocation.
C40_RetrySafe ==
  retry.maxRetries >= 1 =>
    /\ retry.calls <= retry.maxRetries
    /\ Len(retry.outcomes) <= retry.calls
    /\ retry.sleeps <= retry.maxRetries - 1
    /\ retry.slept = retry.sleeps * retry.delay
    /\ retry.pc = "sleeping" => retry.sleeps = Cardinality(Failures)
    /\ retry.pc = "awaitFn" =>
         (retry.sleeps = Cardinality(Failures) /\ retry.calls = Cardinality(Failures) + 1)
    /\ retry.pc = "resolved" =>
         /\ retry.settled = retry.outcomes[retry.calls]
         /\ Failures = 1..(retry.calls - 1)
         /\ retry.sleeps = retry.calls - 1
    /\ retry.pc = "rejected" =>
         /\ retry.calls = retry.maxRetries
         /\ Failures = 1..retry.maxRetries
         /\ retry.sleeps = retry.maxRetries - 1
         /\ retry.settled = retry.outcomes[retry.maxRetries]

C40_RetryTerminates ==
  /\ []C40_RetrySafe
  /\ (retry.maxRetries >= 1) ~> (retry.pc \in {"resolved", "rejected"})

\* three invocations failed, two sleeps, rejected with the last error
C40_Witness ==
  /\ retry.pc = "rejected"
  /\ retry.maxRetries = 3
  /\ retry.outcomes = <<"E1", "E1", "E2">>
  /\ retry.settled = "E2"
  /\ retry.sleeps = 2
  /\ retry.slept = 2000

====
